---- MODULE Spec2Model ----
(***************************************************************************)
(* Model of pyrates: the per-cluster Consensus (pyrates/consensus.py), the *)
(* sequence stores (pyrates/sequence.py) and the Clustering ingest loop    *)
(* (pyrates/clustering.py).                                                *)
(*                                                                         *)
(* Conventions.  A Python string is a TLA+ sequence of one-letter strings; *)
(* a quality string is a sequence of the ASCII codes of its characters, so *)
(* that Python's character comparison is integer comparison.  Positions    *)
(* are 1-based here and 0-based in the source.  A dict is a function whose *)
(* DOMAIN is the set of keys.  A defaultdict(int) of letters is a total    *)
(* function on Letters in which 0 stands for "no entry": the source never  *)
(* leaves an entry it has touched at 0.                                    *)
(***************************************************************************)
EXTENDS Integers, Sequences, FiniteSets, TLC

VARIABLES
    cs,       \* Consensus objects used directly: name -> Consensus
    gh,       \* per object: the reads counted in size (tallies and maxima)
    call,     \* the last call made and its arguments
    ret,      \* what the last call returned or raised
    ncalls,   \* number of calls made, or of records read, so far
    clustering, \* the Clustering object that from_fastq builds
    id_map,   \* from_fastq's id_map: UID -> the centre it was merged into
    step,     \* what the last record did: merge_target's result, the
              \* clusters on which update was called
    st,       \* a SequenceStore or GroupedSequenceStore used directly
    output    \* the records to_fastq has written, as the clusters printed

vars == <<cs, gh, call, ret, ncalls, clustering, id_map, step, st, output>>

----------------------------------------------------------------------------
(* Bounds of the exploration *)

MaxCalls == 2
MaxSizeOther == 2
MaxRecords == 3
MaxStored == 3

----------------------------------------------------------------------------
(* Values *)

Letters == {"A", "C", "T"}

\* ASCII codes of the quality characters 'D' and 'I' used by the tests
Quals == {68, 73}

Max2(x, y) == IF x > y THEN x ELSE y

Range(f) == {f[i] : i \in DOMAIN f}

----------------------------------------------------------------------------
(* pyrates/sequence.py: SequenceWithQuality *)

\* SequenceWithQuality.__init__ raises ValueError on unequal lengths
SWQRaises(sequence, quality) == Len(sequence) # Len(quality)

SequenceWithQuality(sequence, quality) ==
    [sequence |-> sequence, quality |-> quality]

\* SequenceWithQuality.__len__
len(swq) == Len(swq.sequence)

\* variant: the setter takes any value
set_sequence_unchecked(swq, value) ==
    [ret |-> "None", self |-> [swq EXCEPT !.sequence = value]]

\* the setter of SequenceWithQuality.sequence
set_sequence(swq, value) ==
    IF Len(value) # len(swq) THEN [ret |-> "ValueError", self |-> swq]
    ELSE [ret |-> "None", self |-> [swq EXCEPT !.sequence = value]]

\* the setter of SequenceWithQuality.quality
set_quality(swq, value) ==
    IF Len(value) # len(swq) THEN [ret |-> "ValueError", self |-> swq]
    ELSE [ret |-> "None", self |-> [swq EXCEPT !.quality = value]]

\* default arguments of grosslydifferent
GrossLength == 10
GrossTolerance == 7

\* grosslydifferent indexes both strings at 0..length-1 without a length
\* check: it raises IndexError when either string is shorter than length
GrosslyRaises(self, other, length) ==
    length > Len(self.sequence) \/ length > Len(other.sequence)

grosslydifferent(self, other, length, tolerance) ==
    Cardinality({i \in 1..length : self.sequence[i] # other.sequence[i]})
        > tolerance

----------------------------------------------------------------------------
(* pyrates/consensus.py: Consensus *)

NoDiffs == [i \in {} |-> [l \in Letters |-> 0]]

Consensus(uid, sequence) ==
    [uid |-> uid, sequence |-> sequence, diffs |-> NoDiffs, size |-> 1,
     different |-> 0, shorter |-> 0, longer |-> 0]

\* variant: the incoming UID qualities replace the stored ones
_update_uid_replace(self, uid_other) ==
    [self EXCEPT !.uid.quality = uid_other.quality]

_update_uid(self, uid_other) ==
    [self EXCEPT !.uid.quality =
        [i \in 1..Len(self.uid.quality) |->
            IF uid_other.quality[i] > self.uid.quality[i]
            THEN uid_other.quality[i] ELSE self.uid.quality[i]]]

\* variant: on equal quality the read's tuple is taken
TupleMax_ties_to_read(t_other, t_self) ==
    IF t_other[1] >= t_self[1] THEN t_other ELSE t_self

\* Python's max of the two tuples (quality, src, letter) of one position.
\* The src tags 0 (read) and 1 (consensus) always differ, so the comparison
\* is decided by the quality and then by src; the letters are never compared.
TupleMax(t_other, t_self) ==
    IF t_other[1] > t_self[1] \/ (t_other[1] = t_self[1] /\ t_other[2] > t_self[2])
    THEN t_other ELSE t_self

max_qual(self, seq_other) ==
    [i \in 1..Len(seq_other.sequence) |->
        TupleMax(<<seq_other.quality[i], 0, seq_other.sequence[i]>>,
                 <<self.sequence.quality[i], 1, self.sequence.sequence[i]>>)]

\* the list diff of update: positions where read and consensus disagree
diff(self, seq_other) ==
    {i \in 1..Len(seq_other.sequence) :
        self.sequence.sequence[i] # seq_other.sequence[i]}

\* the loop over the positions that maintains diffs; it only runs when the
\* read differs from the consensus somewhere (if any(diff))
update_diffs(self, seq_other, size_other) ==
    LET d == diff(self, seq_other)
        old == self.diffs
        at(i) == IF i \in DOMAIN old THEN old[i] ELSE [l \in Letters |-> 0]
        seeded(i) ==
            LET nuc == self.sequence.sequence[i]
            IN  IF at(i)[nuc] = 0 THEN [at(i) EXCEPT ![nuc] = self.size]
                ELSE at(i)
    IN  IF d = {} THEN old
        ELSE [i \in (DOMAIN old) \cup d |->
                IF i \in d
                THEN [seeded(i) EXCEPT ![seq_other.sequence[i]] = @ + size_other]
                ELSE [old[i] EXCEPT ![self.sequence.sequence[i]] = @ + size_other]]

\* the consensus letters after an accepted update
update_sequence(self, seq_other) ==
    IF diff(self, seq_other) = {} THEN self.sequence.sequence
    ELSE [i \in 1..Len(seq_other.sequence) |-> max_qual(self, seq_other)[i][3]]

\* variant: the read's qualities replace the stored ones
update_quality_replace(self, seq_other) ==
    [i \in 1..Len(seq_other.quality) |-> seq_other.quality[i]]

\* the payload qualities after an accepted update
update_quality(self, seq_other) ==
    [i \in 1..Len(seq_other.quality) |->
        Max2(max_qual(self, seq_other)[i][1], seq_other.quality[i])]

\* variant: a grossly different read is turned away without being counted
reject_different_uncounted(self, size_other, discard) == self

\* the gross-difference gate of update: the read is counted if discard
reject_different(self, size_other, discard) ==
    IF discard THEN [self EXCEPT !.different = @ + size_other] ELSE self

\* variant: a rejected read counts once whatever it stands for
reject_shorter_once(self, size_other, discard) ==
    IF discard THEN [self EXCEPT !.shorter = @ + 1] ELSE self

reject_shorter(self, size_other, discard) ==
    IF discard THEN [self EXCEPT !.shorter = @ + size_other] ELSE self

\* variant: a longer read is always counted in longer, as in the first
\* revision of the script
reject_longer_counts_longer(self, seq_other, size_other, discard) ==
    IF discard
    THEN IF self.size = 1
         THEN [self EXCEPT !.sequence = seq_other, !.longer = @ + size_other]
         ELSE [self EXCEPT !.longer = @ + size_other]
    ELSE self

reject_longer(self, seq_other, size_other, discard) ==
    IF discard
    THEN IF self.size = 1
         THEN [self EXCEPT !.sequence = seq_other, !.shorter = @ + size_other]
         ELSE [self EXCEPT !.longer = @ + size_other]
    ELSE self

accept(self, uid_other, seq_other, size_other) ==
    LET u == _update_uid(self, uid_other)
    IN  [u EXCEPT !.diffs = update_diffs(self, seq_other, size_other),
                  !.sequence = SequenceWithQuality(
                                   update_sequence(self, seq_other),
                                   update_quality(self, seq_other)),
                  !.size = @ + size_other]

\* variant: a longer read replaces the payload whatever the size
update_adopts_longer(self, uid_other, seq_other, size_other, discard) ==
    IF len(self.uid) # len(uid_other)
    THEN [ret |-> "False", self |-> self]
    ELSE IF GrosslyRaises(self.sequence, seq_other, GrossLength)
    THEN [ret |-> "IndexError", self |-> self]
    ELSE IF grosslydifferent(self.sequence, seq_other, GrossLength, GrossTolerance)
    THEN [ret |-> "False", self |-> reject_different(self, size_other, discard)]
    ELSE IF len(self.sequence) > len(seq_other)
    THEN [ret |-> "False", self |-> reject_shorter(self, size_other, discard)]
    ELSE IF len(self.sequence) < len(seq_other)
    THEN [ret |-> "False",
          self |-> [self EXCEPT !.sequence = seq_other, !.shorter = @ + size_other]]
    ELSE [ret |-> "True", self |-> accept(self, uid_other, seq_other, size_other)]

\* Consensus.update: the value returned (or the exception raised) and the
\* object afterwards
update(self, uid_other, seq_other, size_other, discard) ==
    IF len(self.uid) # len(uid_other)
    THEN [ret |-> "False", self |-> self]
    ELSE IF GrosslyRaises(self.sequence, seq_other, GrossLength)
    THEN [ret |-> "IndexError", self |-> self]
    ELSE IF grosslydifferent(self.sequence, seq_other, GrossLength, GrossTolerance)
    THEN [ret |-> "False", self |-> reject_different(self, size_other, discard)]
    ELSE IF len(self.sequence) > len(seq_other)
    THEN [ret |-> "False", self |-> reject_shorter(self, size_other, discard)]
    ELSE IF len(self.sequence) < len(seq_other)
    THEN [ret |-> "False",
          self |-> reject_longer(self, seq_other, size_other, discard)]
    ELSE [ret |-> "True", self |-> accept(self, uid_other, seq_other, size_other)]

\* variant: the other cluster is handed to update as a read to be counted
merge_discards(self, other, tolerance) ==
    IF GrosslyRaises(self.uid, other.uid, len(self.uid))
    THEN [ret |-> "IndexError", self |-> self]
    ELSE IF grosslydifferent(self.uid, other.uid, len(self.uid), tolerance)
    THEN [ret |-> "False", self |-> self]
    ELSE update(self, other.uid, other.sequence, other.size, TRUE)

\* Consensus.merge
merge(self, other, tolerance) ==
    IF GrosslyRaises(self.uid, other.uid, len(self.uid))
    THEN [ret |-> "IndexError", self |-> self]
    ELSE IF grosslydifferent(self.uid, other.uid, len(self.uid), tolerance)
    THEN [ret |-> "False", self |-> self]
    ELSE update(self, other.uid, other.sequence, other.size, FALSE)

\* l without its element i
Delete(l, i) == SubSeq(l, 1, i - 1) \o SubSeq(l, i + 1, Len(l))

\* to_fastq, a small cluster against the targets: the first target that
\* merges it takes it
RECURSIVE merge_into_targets(_, _, _, _)
merge_into_targets(targets, small, id_tolerance, i) ==
    IF i > Len(targets)
    THEN [ret |-> "None", targets |-> targets, merged |-> FALSE]
    ELSE LET r == merge(targets[i], small, id_tolerance)
         IN  IF r.ret = "IndexError"
             THEN [ret |-> "IndexError", targets |-> targets, merged |-> FALSE]
             ELSE IF r.ret = "True"
             THEN [ret |-> "None", targets |-> [targets EXCEPT ![i] = r.self],
                   merged |-> TRUE]
             ELSE merge_into_targets(targets, small, id_tolerance, i + 1)

\* to_fastq, a small cluster against the other small clusters: it takes
\* the first candidate it can merge; remove is that candidate's place, 0
\* if there is none
RECURSIVE merge_one_candidate(_, _, _, _)
merge_one_candidate(self, candidates, id_tolerance, i) ==
    IF i > Len(candidates)
    THEN [ret |-> "None", self |-> self, remove |-> 0]
    ELSE LET r == merge(self, candidates[i], id_tolerance)
         IN  IF r.ret = "IndexError"
             THEN [ret |-> "IndexError", self |-> self, remove |-> 0]
             ELSE IF r.ret = "True"
             THEN [ret |-> "None", self |-> r.self, remove |-> i]
             ELSE merge_one_candidate(self, candidates, id_tolerance, i + 1)

\* to_fastq, a new target against the small clusters: it takes every
\* candidate it can merge; kept are the candidates left
RECURSIVE merge_all_candidates(_, _, _, _, _)
merge_all_candidates(self, candidates, id_tolerance, i, kept) ==
    IF i > Len(candidates)
    THEN [ret |-> "None", self |-> self, candidates |-> kept]
    ELSE LET r == merge(self, candidates[i], id_tolerance)
         IN  IF r.ret = "IndexError"
             THEN [ret |-> "IndexError", self |-> self, candidates |-> candidates]
             ELSE IF r.ret = "True"
             THEN merge_all_candidates(r.self, candidates, id_tolerance, i + 1, kept)
             ELSE merge_all_candidates(self, candidates, id_tolerance, i + 1,
                                       Append(kept, candidates[i]))

\* to_fastq: the body of the loop over the clusters, for one cluster; s
\* holds candidates, targets and the records written so far
to_fastq_cluster(s, self, id_tolerance, merge_size, merge_target_size) ==
    IF self.size <= merge_size
    THEN LET t == merge_into_targets(s.targets, self, id_tolerance, 1)
             c == merge_one_candidate(self, s.candidates, id_tolerance, 1)
         IN  IF t.ret = "IndexError" THEN [s EXCEPT !.ret = "IndexError"]
             ELSE IF t.merged THEN [s EXCEPT !.targets = t.targets]
             ELSE IF c.ret = "IndexError" THEN [s EXCEPT !.ret = "IndexError"]
             ELSE IF c.remove # 0
             THEN IF c.self.size > merge_size
                  THEN [s EXCEPT !.candidates = Delete(@, c.remove),
                                 !.targets = Append(@, c.self)]
                  ELSE [s EXCEPT !.candidates = Append(Delete(@, c.remove), c.self)]
             ELSE [s EXCEPT !.candidates = Append(@, self)]
    ELSE IF self.size <= merge_target_size
    THEN LET c == merge_all_candidates(self, s.candidates, id_tolerance, 1, <<>>)
         IN  IF c.ret = "IndexError" THEN [s EXCEPT !.ret = "IndexError"]
             ELSE [s EXCEPT !.targets = Append(@, c.self),
                            !.candidates = c.candidates]
    ELSE [s EXCEPT !.output = Append(@, self)]

\* to_fastq: the loop over the clusters, in the order of the dict; an
\* exception ends it
RECURSIVE to_fastq_loop(_, _, _, _, _, _)
to_fastq_loop(seq, i, s, id_tolerance, merge_size, merge_target_size) ==
    IF i > Len(seq) \/ s.ret = "IndexError" THEN s
    ELSE to_fastq_loop(seq, i + 1,
                       to_fastq_cluster(s, seq[i], id_tolerance, merge_size,
                                        merge_target_size),
                       id_tolerance, merge_size, merge_target_size)

\* to_fastq: what it returns or raises and the clusters whose records it
\* has written, in the order written; seq lists the clusters in the order
\* of the dict
to_fastq(seq, id_tolerance, merge_size, merge_target_size) ==
    IF merge_size # 0 /\ merge_target_size # 0
    THEN LET s == to_fastq_loop(seq, 1,
                                [candidates |-> <<>>, targets |-> <<>>,
                                 output |-> <<>>, ret |-> "None"],
                                id_tolerance, merge_size, merge_target_size)
         IN  IF s.ret = "IndexError"
             THEN [ret |-> "IndexError", output |-> s.output]
             ELSE [ret |-> "None", output |-> s.output \o s.targets \o s.candidates]
    ELSE [ret |-> "None", output |-> seq]

\* Consensus.__str__: the four lines of the FASTQ record.  The name line
\* holds the size and, per recorded position (0-based), the letters
\* counted there; the sequence line is the UID followed by the payload,
\* the quality line the UID qualities followed by the payload qualities.
Consensus_str(self) ==
    [name |-> [size |-> self.size,
               diffs |-> {<<i - 1, l, self.diffs[i][l]>> :
                            i \in DOMAIN self.diffs,
                            l \in {x \in Letters :
                                     \E j \in DOMAIN self.diffs : self.diffs[j][x] > 0}}
                          \ {<<i - 1, l, 0>> : i \in DOMAIN self.diffs, l \in Letters}],
     sequence |-> self.uid.sequence \o self.sequence.sequence,
     plus |-> <<"+">>,
     quality |-> self.uid.quality \o self.sequence.quality]

----------------------------------------------------------------------------
(* pyrates/sequence.py: SequenceStore *)

\* Python's None
None == "None"

\* None where a UID string is expected
NoUid == <<>>

\* the default alphabet of both stores
Alphabet == <<"A", "C", "G", "T">>

\* str.count for a single character
count(sequence, letter) ==
    Cardinality({i \in DOMAIN sequence : sequence[i] = letter})

\* SequenceStore.__init__: _index is a dict from each stored string to its
\* (first, last+1) composition rows per letter; _composition[letter][k] is
\* a set of stored strings
SequenceStore(max_length, alphabet) ==
    [_index |-> [x \in {} |-> [l \in Range(alphabet) |-> <<0, 0>>]],
     _composition |-> [l \in Range(alphabet) |-> [k \in 0..max_length |-> {}]]]

\* SequenceStore.__contains__
SequenceStore_contains(self, item) == item \in DOMAIN self._index

\* SequenceStore.add
SequenceStore_add(self, sequence, wildcard) ==
    IF sequence \in DOMAIN self._index THEN self
    ELSE LET wilds == IF wildcard = None THEN 0 ELSE count(sequence, wildcard)
             letter_index == [l \in DOMAIN self._composition |->
                                <<count(sequence, l), count(sequence, l) + wilds + 1>>]
         IN  [_index |-> [x \in DOMAIN self._index \cup {sequence} |->
                            IF x = sequence THEN letter_index ELSE self._index[x]],
              _composition |->
                  [l \in DOMAIN self._composition |->
                      [k \in DOMAIN self._composition[l] |->
                          IF letter_index[l][1] <= k /\ k < letter_index[l][2]
                          THEN self._composition[l][k] \cup {sequence}
                          ELSE self._composition[l][k]]]]

\* SequenceStore.diff: Hamming distance over the positions of seq1
SequenceStore_diff(seq1, seq2) ==
    Cardinality({i \in 1..Len(seq1) : seq1[i] # seq2[i]})

\* the rows _composition[letter][min_count:max_count] of one letter
composition_window(self, sequence, letter, max_diff, wilds) ==
    LET letter_count == count(sequence, letter)
        min_count == Max2(0, letter_count - max_diff)
        rows == Cardinality(DOMAIN self._composition[letter])
        max_count == IF rows < letter_count + max_diff + wilds + 1
                     THEN rows ELSE letter_count + max_diff + wilds + 1
    IN  UNION {self._composition[letter][k] : k \in min_count..(max_count - 1)}

\* SequenceStore.search with raw=True: the candidates as an unordered list
\* without duplicates, here a set
SequenceStore_search_raw(self, sequence, max_diff, wildcard) ==
    IF sequence \in DOMAIN self._index THEN {sequence}
    ELSE LET wilds == IF wildcard = None THEN 0 ELSE count(sequence, wildcard)
         IN  UNION {composition_window(self, sequence, l, max_diff, wilds) :
                        l \in DOMAIN self._composition}

\* max_hits=None
Unlimited == 0 - 1

\* l[:max_hits]
Truncate(l, max_hits) ==
    IF max_hits = Unlimited \/ max_hits >= Len(l) THEN l
    ELSE SubSeq(l, 1, max_hits)

\* the lists that hold every pair of hits once, by non-decreasing distance:
\* list(set(...)) followed by a stable sort leaves ties in any order
sorted_lists(hits) ==
    {l \in [1..Cardinality(hits) -> hits] :
        /\ \A i, j \in DOMAIN l : i < j => l[i] # l[j] /\ l[i][2] <= l[j][2]}

\* variant: every raw candidate is reported
SequenceStore_hits_unfiltered(self, sequence, max_diff, wildcard) ==
    IF sequence \in DOMAIN self._index THEN {<<sequence, 0>>}
    ELSE {<<cand, SequenceStore_diff(sequence, cand)>> :
             cand \in SequenceStore_search_raw(self, sequence, max_diff, wildcard)}

\* SequenceStore.search with raw=False before truncation: the
\* (candidate, distance) pairs within max_diff, as a set.  All strings
\* have the length of the query.
SequenceStore_hits(self, sequence, max_diff, wildcard) ==
    IF sequence \in DOMAIN self._index THEN {<<sequence, 0>>}
    ELSE {c \in {<<cand, SequenceStore_diff(sequence, cand)>> :
                    cand \in SequenceStore_search_raw(self, sequence, max_diff,
                                                      wildcard)} :
             c[2] <= max_diff}

\* SequenceStore.search with raw=False: the lists it can return
SequenceStore_search(self, sequence, max_diff, max_hits, wildcard) ==
    {Truncate(l, max_hits) :
        l \in sorted_lists(SequenceStore_hits(self, sequence, max_diff, wildcard))}

\* find returning None
NoMatch == <<>>

\* variant: the match is the last of all hits, not the first
SequenceStore_find_last(self, sequence, max_diff, wildcard) ==
    {IF Len(match) = 0 THEN NoMatch ELSE match[Len(match)] :
        match \in SequenceStore_search(self, sequence, max_diff, Unlimited, wildcard)}

\* SequenceStore.find: the values it can return
SequenceStore_find(self, sequence, max_diff, wildcard) ==
    {IF Len(match) = 0 \/ match[1][2] > max_diff THEN NoMatch ELSE match[1] :
        match \in SequenceStore_search(self, sequence, max_diff, 1, wildcard)}

\* variant: removing a string that is not stored is tolerated
SequenceStore_remove_quiet(self, item) ==
    IF item \notin DOMAIN self._index
    THEN [ret |-> "None", self |-> self]
    ELSE [ret |-> "None",
          self |-> [_index |-> [x \in DOMAIN self._index \ {item} |-> self._index[x]],
                    _composition |->
                        [l \in DOMAIN self._composition |->
                            [k \in DOMAIN self._composition[l] |->
                                self._composition[l][k] \ {item}]]]]

\* SequenceStore.remove: KeyError before anything is changed when the item
\* is not in _index
SequenceStore_remove(self, item) ==
    IF item \notin DOMAIN self._index
    THEN [ret |-> "KeyError", self |-> self]
    ELSE [ret |-> "None",
          self |-> [_index |-> [x \in DOMAIN self._index \ {item} |-> self._index[x]],
                    _composition |->
                        [l \in DOMAIN self._composition |->
                            [k \in DOMAIN self._composition[l] |->
                                IF /\ self._index[item][l][1] <= k
                                   /\ k < self._index[item][l][2]
                                THEN self._composition[l][k] \ {item}
                                ELSE self._composition[l][k]]]]]

\* SequenceStore.discard
SequenceStore_discard(self, item) ==
    IF item \in DOMAIN self._index THEN SequenceStore_remove(self, item).self
    ELSE self

\* SequenceStore.__len__
SequenceStore_len(self) == Cardinality(DOMAIN self._index)

----------------------------------------------------------------------------
(* pyrates/sequence.py: GroupedSequenceStore *)

\* sequence[:n] and sequence[n:]
Prefix(sequence, n) == SubSeq(sequence, 1, IF n < Len(sequence) THEN n ELSE Len(sequence))
Suffix(sequence, n) == SubSeq(sequence, n + 1, Len(sequence))

\* GroupedSequenceStore.__init__; _tag_diff is fixed by the shards and
\* max_diff and is computed where it is used
GroupedSequenceStore(max_length, alphabet, tag_size, max_diff, wildcard) ==
    [_store |-> [tag \in [1..tag_size -> Range(alphabet)] |->
                    SequenceStore(max_length, alphabet)],
     _wild_store |-> SequenceStore(max_length, alphabet),
     _tag_size |-> tag_size,
     _max_diff |-> max_diff,
     _wildcard |-> wildcard,
     _length |-> 0]

\* _tag_diff[tag]: the shards within max_diff of tag
tag_diff(self, tag) ==
    {other_tag \in DOMAIN self._store :
        SequenceStore_diff(tag, other_tag) <= self._max_diff}

\* the test "wildcard is set and occurs in the tag"
wild_tag(self, tag) ==
    self._wildcard # None /\ self._wildcard \in Range(tag)

\* GroupedSequenceStore.__contains__
GroupedSequenceStore_contains(self, item) ==
    LET tag == Prefix(item, self._tag_size)
    IN  IF wild_tag(self, tag)
        THEN SequenceStore_contains(self._wild_store, item)
        ELSE SequenceStore_contains(self._store[tag], Suffix(item, self._tag_size))

\* variant: the length grows with every call of add
GroupedSequenceStore_add_counts_calls(self, sequence) ==
    LET tag == Prefix(sequence, self._tag_size)
    IN  IF wild_tag(self, tag)
        THEN [self EXCEPT !._wild_store = SequenceStore_add(@, sequence, None),
                          !._length = @ + 1]
        ELSE [self EXCEPT !._store[tag] =
                              SequenceStore_add(@, Suffix(sequence, self._tag_size),
                                                self._wildcard),
                          !._length = @ + 1]

\* GroupedSequenceStore.add
GroupedSequenceStore_add(self, sequence) ==
    LET tag == Prefix(sequence, self._tag_size)
    IN  IF GroupedSequenceStore_contains(self, sequence) THEN self
        ELSE IF wild_tag(self, tag)
        THEN [self EXCEPT !._wild_store = SequenceStore_add(@, sequence, None),
                          !._length = @ + 1]
        ELSE [self EXCEPT !._store[tag] =
                              SequenceStore_add(@, Suffix(sequence, self._tag_size),
                                                self._wildcard),
                          !._length = @ + 1]

\* variant: a query with a wildcard in its tag is matched approximately
\* against the wildcard store
GroupedSequenceStore_search_raw_wild_near(self, sequence) ==
    LET tag == Prefix(sequence, self._tag_size)
        tail == Suffix(sequence, self._tag_size)
    IN  IF wild_tag(self, tag)
        THEN SequenceStore_search_raw(self._wild_store, sequence, self._max_diff,
                                      self._wildcard)
        ELSE IF SequenceStore_contains(self._store[tag], tail) THEN {sequence}
        ELSE UNION {
                {other_tag \o seq :
                    seq \in SequenceStore_search_raw(
                                self._store[other_tag], tail,
                                self._max_diff - SequenceStore_diff(tag, other_tag),
                                self._wildcard)} :
                other_tag \in tag_diff(self, tag)}

\* GroupedSequenceStore.search with raw=True
GroupedSequenceStore_search_raw(self, sequence) ==
    LET tag == Prefix(sequence, self._tag_size)
        tail == Suffix(sequence, self._tag_size)
    IN  IF wild_tag(self, tag)
        THEN IF SequenceStore_contains(self._wild_store, sequence)
             THEN {sequence} ELSE {}
        ELSE IF SequenceStore_contains(self._store[tag], tail) THEN {sequence}
        ELSE UNION {
                {other_tag \o seq :
                    seq \in SequenceStore_search_raw(
                                self._store[other_tag], tail,
                                self._max_diff - SequenceStore_diff(tag, other_tag),
                                self._wildcard)} :
                other_tag \in tag_diff(self, tag)}

\* the lists one shard can hand back, tag and tag distance put back on
shard_lists(self, tail, other_tag, tag_distance, max_hits) ==
    {[i \in DOMAIN l |-> <<other_tag \o l[i][1], l[i][2] + tag_distance>>] :
        l \in SequenceStore_search(self._store[other_tag], tail,
                                   self._max_diff - tag_distance, max_hits,
                                   self._wildcard)}

\* GroupedSequenceStore.search with raw=False: the sets of
\* (candidate, distance) pairs it can return.  Each shard reports at most
\* max_hits pairs, the pairs of all shards are sorted by distance and cut
\* to max_hits.
GroupedSequenceStore_hits(self, sequence, max_hits) ==
    LET tag == Prefix(sequence, self._tag_size)
        tail == Suffix(sequence, self._tag_size)
        lists(t) == shard_lists(self, tail, t, SequenceStore_diff(tag, t), max_hits)
    IN  IF wild_tag(self, tag)
        THEN IF SequenceStore_contains(self._wild_store, sequence)
             THEN {{<<sequence, 0>>}} ELSE {{}}
        ELSE IF SequenceStore_contains(self._store[tag], tail)
        THEN {{<<sequence, 0>>}}
        ELSE {Range(Truncate(l, max_hits)) :
                 l \in UNION {sorted_lists(UNION {Range(pick[t]) : t \in DOMAIN pick}) :
                                 pick \in {f \in [tag_diff(self, tag) ->
                                                     UNION {lists(t) : t \in tag_diff(self, tag)}] :
                                              \A t \in DOMAIN f : f[t] \in lists(t)}}}

\* GroupedSequenceStore.search with raw=False: the lists it can return;
\* the closing list(set(...)) leaves the pairs in any order
GroupedSequenceStore_search(self, sequence, max_hits) ==
    UNION {{l \in [1..Cardinality(hits) -> hits] :
               \A i, j \in DOMAIN l : i < j => l[i] # l[j]} :
              hits \in GroupedSequenceStore_hits(self, sequence, max_hits)}

\* GroupedSequenceStore.find: the values it can return
GroupedSequenceStore_find(self, sequence) ==
    {IF Len(match) = 0 \/ match[1][2] > self._max_diff THEN NoMatch ELSE match[1] :
        match \in GroupedSequenceStore_search(self, sequence, 1)}

\* GroupedSequenceStore.remove: KeyError, with nothing changed, when the
\* item is not stored
GroupedSequenceStore_remove(self, item) ==
    LET tag == Prefix(item, self._tag_size)
        r == IF wild_tag(self, tag)
             THEN SequenceStore_remove(self._wild_store, item)
             ELSE SequenceStore_remove(self._store[tag], Suffix(item, self._tag_size))
    IN  IF r.ret = "KeyError" THEN [ret |-> "KeyError", self |-> self]
        ELSE [ret |-> "None",
              self |-> IF wild_tag(self, tag)
                       THEN [self EXCEPT !._wild_store = r.self, !._length = @ - 1]
                       ELSE [self EXCEPT !._store[tag] = r.self, !._length = @ - 1]]

\* GroupedSequenceStore.discard
GroupedSequenceStore_discard(self, item) ==
    IF GroupedSequenceStore_contains(self, item)
    THEN GroupedSequenceStore_remove(self, item).self
    ELSE self

\* GroupedSequenceStore.__len__
GroupedSequenceStore_len(self) == self._length

\* GroupedSequenceStore.wild_tags, as the set of its strings
wild_tags(self) == DOMAIN self._wild_store._index

----------------------------------------------------------------------------
(* pyrates/clustering.py: Clustering *)

\* the two-element counters of stats, indexed by is_long
bump(pair, is_long, d) ==
    IF is_long THEN <<pair[1], pair[2] + d>> ELSE <<pair[1] + d, pair[2]>>

\* Clustering.__init__ with a store handed in
Clustering(centres, store, read_length) ==
    [clusters |-> centres,
     _store |-> store,
     stats |-> [read_length |-> read_length,
                total_skipped |-> <<0, 0>>,
                total_merged |-> <<0, 0>>,
                total_fixed |-> <<0, 0>>,
                single_count |-> <<0, 0>>]]

\* variant: the new centre is not handed to the store
add_skips_store(self, uid, sequence) ==
    [self EXCEPT
        !.clusters = [k \in DOMAIN self.clusters \cup {uid.sequence} |->
                        IF k = uid.sequence THEN Consensus(uid, sequence)
                        ELSE self.clusters[k]]]

\* Clustering.add
add(self, uid, sequence) ==
    [self EXCEPT
        !.clusters = [k \in DOMAIN self.clusters \cup {uid.sequence} |->
                        IF k = uid.sequence THEN Consensus(uid, sequence)
                        ELSE self.clusters[k]],
        !._store = GroupedSequenceStore_add(@, uid.sequence)]

\* Clustering.fail_count
fail_count(self) == Cardinality(wild_tags(self._store))

\* the candidates that reach the gross-difference test of _filter
same_length(self, candidates, read_seq) ==
    {cand \in candidates : len(self.clusters[cand].sequence) = len(read_seq)}

\* _filter raises when grosslydifferent does, for any one candidate
filter_raises(self, candidates, read_seq) ==
    \E cand \in same_length(self, candidates, read_seq) :
        GrosslyRaises(self.clusters[cand].sequence, read_seq, GrossLength)

\* Clustering._filter: the (candidate, distance) pairs that remain
_filter(self, pattern, candidates, read_seq, threshold) ==
    LET alike == {cand \in same_length(self, candidates, read_seq) :
                     ~grosslydifferent(self.clusters[cand].sequence, read_seq,
                                       GrossLength, GrossTolerance)}
        scored == {<<cand, SequenceStore_diff(cand, pattern)>> : cand \in alike}
    IN  {cand \in scored : cand[2] <= threshold}

\* the values min(id_cands, key=distance) can take: the list comes from a
\* set, so any candidate at the least distance can be first
merge_targets(self, uid, read_seq, threshold) ==
    LET id_cands == _filter(self, uid.sequence,
                            GroupedSequenceStore_search_raw(self._store, uid.sequence),
                            read_seq, threshold)
    IN  IF id_cands = {} THEN {NoUid}
        ELSE {cand[1] : cand \in
                 {c \in id_cands : \A e \in id_cands : c[2] <= e[2]}}

\* variant: the read's UID becomes a centre also when it is mapped to a
\* neighbour
merge_target_always_adds(self, uid, read_seq, idmap, similar_id) ==
    IF similar_id = NoUid
    THEN [self |-> add(self, uid, read_seq), id_map |-> idmap]
    ELSE [self |-> add(self, uid, read_seq),
          id_map |-> [k \in DOMAIN idmap \cup {uid.sequence} |->
                        IF k = uid.sequence THEN similar_id ELSE idmap[k]]]

\* Clustering.merge_target once similar_id is chosen: a new cluster, or
\* an entry of id_map
merge_target(self, uid, read_seq, idmap, similar_id) ==
    IF similar_id = NoUid
    THEN [self |-> add(self, uid, read_seq), id_map |-> idmap]
    ELSE [self |-> self,
          id_map |-> [k \in DOMAIN idmap \cup {uid.sequence} |->
                        IF k = uid.sequence THEN similar_id ELSE idmap[k]]]

\* line[0:id_length] + line[-id_length:]
uid_of_line(line, id_length) ==
    Prefix(line, id_length)
        \o SubSeq(line, Max2(1, Len(line) - id_length + 1), Len(line))

\* line[adapt_length:-adapt_length]
payload_of_line(line, adapt_length) ==
    SubSeq(line, adapt_length + 1, Len(line) - adapt_length)

\* variant: a read whose update fails is not counted
record_update_drops_failed(self, idmap, uid, read_seq, similar_id, id_matched, is_long) ==
    LET r == update(self.clusters[similar_id], uid, read_seq, 1, TRUE)
        cl == [self EXCEPT !.clusters[similar_id] = r.self]
    IN  IF r.ret = "IndexError"
        THEN [self |-> self, id_map |-> idmap, ret |-> "IndexError"]
        ELSE IF r.ret = "True"
        THEN [self |-> [cl EXCEPT
                  !.stats.total_merged =
                      IF id_matched THEN @ ELSE bump(@, is_long, 1),
                  !.stats.single_count =
                      IF r.self.size = 2 THEN bump(@, is_long, -1) ELSE @],
              id_map |-> idmap, ret |-> "None"]
        ELSE [self |-> cl, id_map |-> idmap, ret |-> "None"]

\* the update branch of the loop body of from_fastq
record_update(self, idmap, uid, read_seq, similar_id, id_matched, is_long) ==
    LET r == update(self.clusters[similar_id], uid, read_seq, 1, TRUE)
        cl == [self EXCEPT !.clusters[similar_id] = r.self]
        stats == cl.stats
    IN  IF r.ret = "IndexError"
        THEN [self |-> self, id_map |-> idmap, ret |-> "IndexError"]
        ELSE IF r.ret = "True"
        THEN [self |-> [cl EXCEPT
                  !.stats.total_merged =
                      IF id_matched THEN @ ELSE bump(@, is_long, 1),
                  !.stats.single_count =
                      IF r.self.size = 2 THEN bump(@, is_long, -1) ELSE @],
              id_map |-> idmap, ret |-> "None"]
        ELSE [self |-> [cl EXCEPT
                  !.stats.total_skipped = bump(@, is_long, 1)],
              id_map |-> idmap, ret |-> "None"]

\* step before any record is read
NoStep == [merge_target |-> "NotCalled", target |-> NoUid, updates |-> <<>>]

\* the loop body of Clustering.from_fastq for one record: the sequence
\* line and the quality line.  pick is the value merge_target's min takes.
\* The result holds the objects after the record, what was raised if
\* anything (ret), whether merge_target was called and returned
\* (merge_target), its value (target) and the clusters on which update was
\* called (updates).
record(self, idmap, line, qline, id_length, adapter, threshold, pick) ==
    LET adapt_length == id_length + Len(adapter)
        max_short == IF self.stats.read_length = None THEN 0
                     ELSE self.stats.read_length - id_length - Len(adapter)
        nameid == uid_of_line(line, id_length)
        sequence == payload_of_line(line, adapt_length)
        is_long == Len(sequence) > max_short
        qnameid == uid_of_line(qline, id_length)
        qsequence == payload_of_line(qline, adapt_length)
        uid == SequenceWithQuality(nameid, qnameid)
        read_seq == SequenceWithQuality(sequence, qsequence)
        fixed == [self EXCEPT !.stats.total_fixed = bump(@, is_long, 1)]
    IN  IF SWQRaises(nameid, qnameid) \/ SWQRaises(sequence, qsequence)
        THEN [self |-> self, id_map |-> idmap, ret |-> "ValueError"] @@ NoStep
        ELSE IF nameid \in DOMAIN idmap
        THEN record_update(fixed, idmap, uid, read_seq, idmap[nameid], FALSE, is_long)
               @@ [NoStep EXCEPT !.updates = <<idmap[nameid]>>]
        ELSE IF nameid \notin DOMAIN self.clusters
        THEN IF filter_raises(self,
                    GroupedSequenceStore_search_raw(self._store, nameid), read_seq)
             THEN [self |-> self, id_map |-> idmap, ret |-> "IndexError"]
                    @@ [NoStep EXCEPT !.merge_target = "Raised"]
             ELSE LET m == merge_target(self, uid, read_seq, idmap, pick)
                  IN  IF pick # NoUid
                      THEN record_update(
                               [m.self EXCEPT !.stats.total_fixed = bump(@, is_long, 1)],
                               m.id_map, uid, read_seq, pick, FALSE, is_long)
                             @@ [merge_target |-> "Returned", target |-> pick,
                                 updates |-> <<pick>>]
                      ELSE [self |-> [add(m.self, uid, read_seq) EXCEPT
                                        !.stats.single_count = bump(@, is_long, 1)],
                            id_map |-> m.id_map, ret |-> "None",
                            merge_target |-> "Returned", target |-> NoUid,
                            updates |-> <<>>]
        ELSE record_update(self, idmap, uid, read_seq, nameid, TRUE, is_long)
               @@ [NoStep EXCEPT !.updates = <<nameid>>]

----------------------------------------------------------------------------
(* Inputs of the direct Consensus calls *)

\* payloads: two leading positions that vary, then a constant filler; a
\* filler of "T" against "A" differs in 8 of the first 10 positions
Payload(x, y, f, n) ==
    [i \in 1..n |-> IF i = 1 THEN x ELSE IF i = 2 THEN y ELSE f]

PayloadQuality(q, n) == [i \in 1..n |-> IF i = 1 THEN q ELSE 73]

\* a read is a UID and a payload, each with its qualities
Read(uid, seq) == [uid |-> uid, seq |-> seq]

UidAA(q1, q2) == SequenceWithQuality(<<"A", "A">>, <<q1, q2>>)

UpdReads ==
    \* payloads of length 10 that differ in the leading positions
    {Read(UidAA(q, 141 - q),
          SequenceWithQuality(Payload(x, y, "A", 10), PayloadQuality(q, 10))) :
        x \in {"A", "C"}, y \in {"A", "C"}, q \in {73}}
    \cup {Read(UidAA(q, 141 - q),
               SequenceWithQuality(Payload(x, "A", "A", 10), PayloadQuality(q, 10))) :
            x \in {"A", "C"}, q \in {68}}
    \* payloads of other lengths and grossly different ones
    \cup {Read(UidAA(73, 73),
               SequenceWithQuality(Payload("A", "A", fn[1], fn[2]),
                                   PayloadQuality(73, fn[2]))) :
            fn \in {<<"A", 9>>, <<"A", 11>>, <<"T", 10>>, <<"T", 11>>}}
    \* a UID of another length
    \cup {Read(SequenceWithQuality(<<"A", "A", "A">>, <<73, 73, 73>>),
               SequenceWithQuality(Payload("A", "A", "A", 10), PayloadQuality(73, 10)))}

\* size_other and discard of a direct call
UpdModes == {<<n, TRUE>> : n \in 1..MaxSizeOther} \cup {<<1, FALSE>>}

----------------------------------------------------------------------------
(* The reads counted in size: kept beside each object to state the claims *)

GhostOf(uid, read, n) ==
    [tally |-> [i \in 1..len(read) |->
                  [l \in Letters |-> IF read.sequence[i] = l THEN n ELSE 0]],
     qmax |-> read.quality,
     uqmax |-> uid.quality,
     uqmax_created |-> uid.quality]

GhostAdd(g, uid, read, n) ==
    [tally |-> [i \in 1..len(read) |->
                  [g.tally[i] EXCEPT ![read.sequence[i]] = @ + n]],
     qmax |-> [i \in 1..len(read) |-> Max2(g.qmax[i], read.quality[i])],
     uqmax |-> [i \in 1..Len(g.uqmax) |-> Max2(g.uqmax[i], uid.quality[i])],
     uqmax_created |-> [i \in 1..Len(g.uqmax_created) |->
                          Max2(g.uqmax_created[i], uid.quality[i])]]

\* tally[i][l]: the reads counted in size with letter l at i; qmax: their
\* highest payload quality per position; uqmax: their highest UID quality;
\* uqmax_created: the highest UID quality over the read the object was
\* constructed from and the accepted reads.  A rejected call that replaces
\* the payload makes its read the only one counted in size.
\* after a call of update on a cluster whose ghost was g
GhostUpdate(g, before, r, uid, read, n) ==
    IF r.ret = "True" THEN GhostAdd(g, uid, read, n)
    ELSE IF r.self.sequence # before.sequence
    THEN [GhostOf(uid, read, 1) EXCEPT !.uqmax_created = g.uqmax_created]
    ELSE g

----------------------------------------------------------------------------
(* Direct use of one Consensus object *)

InitCons ==
    /\ \E r \in UpdReads :
          /\ cs = [o \in {"a"} |-> Consensus(r.uid, r.seq)]
          /\ gh = [o \in {"a"} |-> GhostOf(r.uid, r.seq, 1)]
    /\ call = [op |-> "new"]
    /\ ret = "None"
    /\ ncalls = 0
    /\ clustering = None
    /\ id_map = <<>>
    /\ step = NoStep
    /\ st = None
    /\ output = <<>>

Update(o, uid_other, seq_other, size_other, discard) ==
    LET r == update(cs[o], uid_other, seq_other, size_other, discard)
    IN  /\ ncalls < MaxCalls
        /\ cs' = [cs EXCEPT ![o] = r.self]
        /\ ret' = r.ret
        /\ gh' = [gh EXCEPT ![o] =
                    GhostUpdate(@, cs[o], r, uid_other, seq_other, size_other)]
        /\ call' = [op |-> "update", obj |-> o, uid_other |-> uid_other,
                    seq_other |-> seq_other, size_other |-> size_other,
                    discard |-> discard]
        /\ ncalls' = ncalls + 1
        /\ UNCHANGED <<clustering, id_map, step, st, output>>

NextCons ==
    \E o \in DOMAIN cs, r \in UpdReads, m \in UpdModes :
        Update(o, r.uid, r.seq, m[1], m[2])

Spec == InitCons /\ [][NextCons]_vars

\* single-read calls only
NextSingle ==
    \E o \in DOMAIN cs, r \in UpdReads, d \in BOOLEAN :
        Update(o, r.uid, r.seq, 1, d)

SpecSingle == InitCons /\ [][NextSingle]_vars

----------------------------------------------------------------------------
(* Two Consensus objects that are updated and merged into each other *)

MergeTolerances == {0, 1}

MergePayloads ==
    {SequenceWithQuality(Payload(x, y, "A", 10), PayloadQuality(73, 10)) :
        x \in {"A", "C"}, y \in {"A", "C"}}
    \cup {SequenceWithQuality(Payload("A", "A", "A", 10), PayloadQuality(68, 10)),
          SequenceWithQuality(Payload("A", "A", "A", 11), PayloadQuality(73, 11)),
          SequenceWithQuality(Payload("A", "A", "T", 10), PayloadQuality(73, 10))}

MergeUids ==
    {SequenceWithQuality(<<"A", "A">>, <<68, 73>>),
     SequenceWithQuality(<<"A", "C">>, <<73, 73>>),
     SequenceWithQuality(<<"C", "C">>, <<73, 73>>)}

\* the reads counted in size after a successful merge
GhostMerge(g, h) ==
    [tally |-> [i \in DOMAIN g.tally |->
                  [l \in Letters |-> g.tally[i][l] + h.tally[i][l]]],
     qmax |-> [i \in DOMAIN g.qmax |-> Max2(g.qmax[i], h.qmax[i])],
     uqmax |-> [i \in DOMAIN g.uqmax |-> Max2(g.uqmax[i], h.uqmax[i])],
     uqmax_created |-> [i \in DOMAIN g.uqmax_created |->
                          Max2(g.uqmax_created[i], h.uqmax_created[i])]]

InitMerge ==
    /\ \E ua \in {UidAA(73, 68)}, ub \in MergeUids,
          pa \in MergePayloads, pb \in MergePayloads :
          /\ cs = [o \in {"a", "b"} |->
                     IF o = "a" THEN Consensus(ua, pa) ELSE Consensus(ub, pb)]
          /\ gh = [o \in {"a", "b"} |->
                     IF o = "a" THEN GhostOf(ua, pa, 1) ELSE GhostOf(ub, pb, 1)]
    /\ call = [op |-> "new"]
    /\ ret = "None"
    /\ ncalls = 0
    /\ clustering = None
    /\ id_map = <<>>
    /\ step = NoStep
    /\ st = None
    /\ output = <<>>

Merge(o, p, tolerance) ==
    LET r == merge(cs[o], cs[p], tolerance)
    IN  /\ ncalls < MaxCalls
        /\ cs' = [cs EXCEPT ![o] = r.self]
        /\ ret' = r.ret
        /\ gh' = [gh EXCEPT ![o] =
                    IF r.ret = "True" THEN GhostMerge(@, gh[p]) ELSE @]
        /\ call' = [op |-> "merge", obj |-> o, other |-> p,
                    tolerance |-> tolerance]
        /\ ncalls' = ncalls + 1
        /\ UNCHANGED <<clustering, id_map, step, st, output>>

UpdateForMerge ==
    \E o \in DOMAIN cs, s \in MergePayloads :
        Update(o, UidAA(73, 73), s, 1, TRUE)

MergeCall ==
    \E o \in DOMAIN cs, p \in DOMAIN cs, t \in MergeTolerances :
        o # p /\ Merge(o, p, t)

NextMerge == UpdateForMerge \/ MergeCall

SpecMerge == InitMerge /\ [][NextMerge]_vars

----------------------------------------------------------------------------
(* Clustering.from_fastq, one record at a time *)

\* the arguments of from_fastq
Args == [id_length |-> 2, adapter |-> <<"G">>, threshold |-> 2, prefix |-> 1,
         read_length |-> None]

\* the sequence line of a record: UID halves around adapter, payload, adapter
Line(nameid, payload) ==
    SubSeq(nameid, 1, Args.id_length) \o Args.adapter \o payload
        \o Args.adapter \o SubSeq(nameid, Args.id_length + 1, Len(nameid))

QualityLine(n) == [i \in 1..n |-> 73]

ClustUids ==
    {<<"A", "A", "A", "A">>, <<"C", "A", "A", "A">>, <<"C", "C", "A", "A">>,
     <<"C", "C", "C", "A">>, <<"N", "A", "A", "A">>, <<"A", "A", "N", "A">>}

\* the records of the input file: [line, qline]
Records ==
    {[line |-> Line(u, Payload("A", "A", "A", 10)),
      qline |-> QualityLine(Len(Line(u, Payload("A", "A", "A", 10))))] :
        u \in ClustUids}
    \* other payloads: a mismatch, a longer one, a shorter one, a grossly
    \* different one
    \cup {[line |-> Line(u, Payload("A", yfn[1], yfn[2], yfn[3])),
           qline |-> QualityLine(Len(Line(u, Payload("A", yfn[1], yfn[2], yfn[3]))))] :
            u \in {<<"A", "A", "A", "A">>, <<"C", "A", "A", "A">>},
            yfn \in {<<"C", "A", 10>>, <<"A", "A", 11>>, <<"A", "A", 9>>,
                     <<"A", "T", 10>>}}
    \* a quality line shorter than its sequence line
    \cup {[line |-> Line(<<"A", "A", "A", "A">>, Payload("A", "A", "A", 10)),
           qline |-> QualityLine(Len(Line(<<"A", "A", "A", "A">>,
                                           Payload("A", "A", "A", 10))) - 1)]}

Raised == {"ValueError", "IndexError"}

InitClust ==
    /\ cs = <<>>
    /\ gh = <<>>
    /\ call = [op |-> "new"]
    /\ ret = "None"
    /\ ncalls = 0
    /\ clustering = Clustering(<<>>,
                               GroupedSequenceStore(Args.id_length * 2, Alphabet,
                                                    Args.prefix, Args.threshold, "N"),
                               Args.read_length)
    /\ id_map = <<>>
    /\ step = NoStep
    /\ st = None
    /\ output = <<>>

\* the UID and the payload that from_fastq cuts out of a record
RecordUid(line, qline) ==
    SequenceWithQuality(uid_of_line(line, Args.id_length),
                        uid_of_line(qline, Args.id_length))

RecordRead(line, qline) ==
    SequenceWithQuality(
        payload_of_line(line, Args.id_length + Len(Args.adapter)),
        payload_of_line(qline, Args.id_length + Len(Args.adapter)))

\* the values merge_target can return for this record, NoUid where it is
\* not called or does not return
Picks(line, qline) ==
    LET uid == RecordUid(line, qline)
        read_seq == RecordRead(line, qline)
    IN  IF /\ ~SWQRaises(uid.sequence, uid.quality)
           /\ ~SWQRaises(read_seq.sequence, read_seq.quality)
           /\ uid.sequence \notin DOMAIN id_map
           /\ uid.sequence \notin DOMAIN clustering.clusters
           /\ ~filter_raises(clustering,
                  GroupedSequenceStore_search_raw(clustering._store, uid.sequence),
                  read_seq)
        THEN merge_targets(clustering, uid, read_seq, Args.threshold)
        ELSE {NoUid}

\* from_fastq reads one more record; an exception ends the run
Ingest(line, qline) ==
    /\ ncalls < MaxRecords
    /\ ret \notin Raised
    /\ \E pick \in Picks(line, qline) :
          LET r == record(clustering, id_map, line, qline, Args.id_length,
                          Args.adapter, Args.threshold, pick)
          IN  /\ clustering' = r.self
              /\ id_map' = r.id_map
              /\ ret' = r.ret
              /\ step' = [merge_target |-> r.merge_target, target |-> r.target,
                           updates |-> r.updates]
    /\ call' = [op |-> "record", line |-> line, qline |-> qline]
    /\ ncalls' = ncalls + 1
    /\ UNCHANGED <<cs, gh, st, output>>

NextClust == \E rec \in Records : Ingest(rec.line, rec.qline)

SpecClust == InitClust /\ [][NextClust]_vars

\* the reads handed to Clustering.add and Clustering.merge_target directly
ApiReads ==
    {[uid |-> SequenceWithQuality(u, QualityLine(Len(u))),
      seq |-> SequenceWithQuality(Payload("A", "A", "A", 10), QualityLine(10))] :
        u \in ClustUids}
    \cup {[uid |-> SequenceWithQuality(<<"A", "A", "A", "A">>, QualityLine(4)),
           seq |-> SequenceWithQuality(Payload("A", "A", "A", n), QualityLine(n))] :
            n \in {9, 11}}

\* a direct call of Clustering.add
AddCall(uid, sequence) ==
    /\ ncalls < MaxRecords
    /\ clustering' = add(clustering, uid, sequence)
    /\ ret' = "None"
    /\ call' = [op |-> "add", uid |-> uid, sequence |-> sequence]
    /\ step' = NoStep
    /\ ncalls' = ncalls + 1
    /\ UNCHANGED <<cs, gh, id_map, st, output>>

\* a direct call of Clustering.merge_target with the caller's id_map
MergeTargetCall(uid, read_seq) ==
    LET cands == GroupedSequenceStore_search_raw(clustering._store, uid.sequence)
    IN  /\ ncalls < MaxRecords
        /\ IF filter_raises(clustering, cands, read_seq)
           THEN /\ ret' = "IndexError"
                /\ step' = [NoStep EXCEPT !.merge_target = "Raised"]
                /\ UNCHANGED <<clustering, id_map>>
           ELSE \E pick \in merge_targets(clustering, uid, read_seq, Args.threshold) :
                  LET m == merge_target(clustering, uid, read_seq, id_map, pick)
                  IN  /\ clustering' = m.self
                      /\ id_map' = m.id_map
                      /\ ret' = "None"
                      /\ step' = [NoStep EXCEPT !.merge_target = "Returned",
                                                !.target = pick]
        /\ call' = [op |-> "merge_target", uid |-> uid, sequence |-> read_seq]
        /\ ncalls' = ncalls + 1
        /\ UNCHANGED <<cs, gh, st, output>>

NextSteps ==
    \/ NextClust
    \/ \E r \in ApiReads : AddCall(r.uid, r.seq)
    \/ \E r \in ApiReads : MergeTargetCall(r.uid, r.seq)

\* records of from_fastq and direct calls on the clustering it builds
SpecSteps == InitClust /\ [][NextSteps]_vars

----------------------------------------------------------------------------
(* Direct use of the SequenceWithQuality objects of a Consensus *)

\* the strings assigned and the lines a new object is built from
SwqLengths == {9, 10, 11}

\* o.uid or o.sequence is assigned a new sequence or a new quality string
Assign(o, field, attr, value) ==
    LET swq == IF field = "uid" THEN cs[o].uid ELSE cs[o].sequence
        r == IF attr = "sequence" THEN set_sequence(swq, value)
             ELSE set_quality(swq, value)
    IN  /\ ncalls < MaxCalls
        /\ cs' = IF field = "uid" THEN [cs EXCEPT ![o].uid = r.self]
                 ELSE [cs EXCEPT ![o].sequence = r.self]
        /\ ret' = r.ret
        /\ call' = [op |-> "assign", obj |-> o, field |-> field, attr |-> attr,
                    value |-> value]
        /\ ncalls' = ncalls + 1
        /\ UNCHANGED <<gh, clustering, id_map, step, st, output>>

\* o = Consensus(uid, SequenceWithQuality(sequence, quality))
Construct(o, uid, sequence, quality) ==
    /\ ncalls < MaxCalls
    /\ IF SWQRaises(sequence, quality)
       THEN ret' = "ValueError" /\ UNCHANGED <<cs, gh>>
       ELSE /\ ret' = "None"
            /\ cs' = [cs EXCEPT ![o] =
                        Consensus(uid, SequenceWithQuality(sequence, quality))]
            /\ gh' = [gh EXCEPT ![o] =
                        GhostOf(uid, SequenceWithQuality(sequence, quality), 1)]
    /\ call' = [op |-> "construct", obj |-> o, sequence |-> sequence,
                quality |-> quality]
    /\ ncalls' = ncalls + 1
    /\ UNCHANGED <<clustering, id_map, step, st, output>>

NextSwq ==
    \/ \E o \in DOMAIN cs, r \in UpdReads : Update(o, r.uid, r.seq, 1, TRUE)
    \/ \E o \in DOMAIN cs, n \in SwqLengths :
          \/ Assign(o, "sequence", "sequence", Payload("C", "C", "A", n))
          \/ Assign(o, "sequence", "quality", PayloadQuality(68, n))
    \/ \E o \in DOMAIN cs, n \in 1..3 :
          \/ Assign(o, "uid", "sequence", [i \in 1..n |-> "C"])
          \/ Assign(o, "uid", "quality", [i \in 1..n |-> 68])
    \/ \E o \in DOMAIN cs, n \in SwqLengths, m \in SwqLengths :
          Construct(o, UidAA(73, 73), Payload("A", "A", "A", n), PayloadQuality(73, m))

SpecSwq == InitCons /\ [][NextSwq]_vars

----------------------------------------------------------------------------
(* Direct calls on a SequenceStore *)

\* the queries: length 3, some with the wildcard
PlainStrings ==
    [1..3 -> {"A", "C"}] \cup {<<"N", "A", "A">>, <<"A", "N", "C">>}

\* the strings added to and removed from the store
StoredStrings ==
    {<<"A", "A", "A">>, <<"A", "A", "C">>, <<"A", "C", "C">>, <<"C", "C", "C">>,
     <<"N", "A", "A">>, <<"A", "N", "C">>}

Wildcards == {None, "N"}

\* no Consensus, no Clustering, no call yet; gh is the reference set of
\* strings to which the calls on the store are applied as well
Idle ==
    /\ cs = <<>>
    /\ gh = {}
    /\ call = [op |-> "new"]
    /\ ret = "None"
    /\ ncalls = 0
    /\ clustering = None
    /\ id_map = <<>>
    /\ step = NoStep
    /\ output = <<>>

InitStore ==
    /\ Idle
    /\ st = SequenceStore(3, Alphabet)

StoreAdd(sequence, wildcard) ==
    /\ sequence \in DOMAIN st._index \/ SequenceStore_len(st) < MaxStored
    /\ st' = SequenceStore_add(st, sequence, wildcard)
    /\ ret' = "None"
    /\ call' = [op |-> "add", item |-> sequence, wildcard |-> wildcard,
                stored |-> SequenceStore_contains(st, sequence)]
    /\ gh' = gh \cup {sequence}
    /\ UNCHANGED <<cs, ncalls, clustering, id_map, step, output>>

StoreRemove(item) ==
    LET r == SequenceStore_remove(st, item)
    IN  /\ st' = r.self
        /\ ret' = r.ret
        /\ call' = [op |-> "remove", item |-> item, wildcard |-> None,
                    stored |-> SequenceStore_contains(st, item)]
        /\ gh' = IF r.ret = "KeyError" THEN gh ELSE gh \ {item}
        /\ UNCHANGED <<cs, ncalls, clustering, id_map, step, output>>

StoreDiscard(item) ==
    /\ st' = SequenceStore_discard(st, item)
    /\ ret' = "None"
    /\ call' = [op |-> "discard", item |-> item, wildcard |-> None,
                stored |-> SequenceStore_contains(st, item)]
    /\ gh' = gh \ {item}
    /\ UNCHANGED <<cs, ncalls, clustering, id_map, step, output>>

NextStore ==
    \/ \E x \in StoredStrings, w \in Wildcards : StoreAdd(x, w)
    \/ \E x \in StoredStrings : StoreRemove(x)
    \/ \E x \in StoredStrings : StoreDiscard(x)

SpecStore == InitStore /\ [][NextStore]_vars

----------------------------------------------------------------------------
(* Direct calls on a GroupedSequenceStore *)

\* the strings added to and removed from the grouped store; the first
\* letter is the tag
GroupedStrings ==
    {<<"A", "A", "A">>, <<"C", "A", "A">>, <<"C", "C", "A">>, <<"C", "A", "C">>,
     <<"N", "A", "A">>, <<"A", "N", "A">>}

InitGrouped ==
    /\ Idle
    /\ st = GroupedSequenceStore(3, Alphabet, Args.prefix, Args.threshold, "N")

GroupedAdd(sequence) ==
    /\ GroupedSequenceStore_contains(st, sequence)
           \/ GroupedSequenceStore_len(st) < MaxStored
    /\ st' = GroupedSequenceStore_add(st, sequence)
    /\ ret' = "None"
    /\ call' = [op |-> "add", item |-> sequence,
                stored |-> GroupedSequenceStore_contains(st, sequence)]
    /\ gh' = gh \cup {sequence}
    /\ UNCHANGED <<cs, ncalls, clustering, id_map, step, output>>

GroupedRemove(item) ==
    LET r == GroupedSequenceStore_remove(st, item)
    IN  /\ st' = r.self
        /\ ret' = r.ret
        /\ call' = [op |-> "remove", item |-> item,
                    stored |-> GroupedSequenceStore_contains(st, item)]
        /\ gh' = IF r.ret = "KeyError" THEN gh ELSE gh \ {item}
        /\ UNCHANGED <<cs, ncalls, clustering, id_map, step, output>>

GroupedDiscard(item) ==
    /\ st' = GroupedSequenceStore_discard(st, item)
    /\ ret' = "None"
    /\ call' = [op |-> "discard", item |-> item,
                stored |-> GroupedSequenceStore_contains(st, item)]
    /\ gh' = gh \ {item}
    /\ UNCHANGED <<cs, ncalls, clustering, id_map, step, output>>

NextGrouped ==
    \/ \E x \in GroupedStrings : GroupedAdd(x)
    \/ \E x \in GroupedStrings : GroupedRemove(x)
    \/ \E x \in GroupedStrings : GroupedDiscard(x)

SpecGrouped == InitGrouped /\ [][NextGrouped]_vars

----------------------------------------------------------------------------
(* Writing the clusters: to_fastq *)

\* the cluster that n equal reads give
RECURSIVE Grown(_, _, _)
Grown(uid, sequence, n) ==
    IF n = 1 THEN Consensus(uid, sequence)
    ELSE update(Grown(uid, sequence, n - 1), uid, sequence, 1, TRUE).self

\* the clusters handed to to_fastq: payloads of length 10 that agree,
\* differ in one letter or are grossly different, each from 1 to
\* MaxSizeOther reads, and a payload of length 9 from one read
OutClusters ==
    {Grown(SequenceWithQuality(u, <<73, 73>>),
           SequenceWithQuality(Payload(xf[1], "A", xf[2], 10), PayloadQuality(73, 10)),
           n) :
        u \in {<<"A", "A">>, <<"A", "C">>, <<"C", "C">>},
        xf \in {<<"A", "A">>, <<"C", "A">>, <<"A", "T">>},
        n \in 1..MaxSizeOther}
    \cup {Consensus(SequenceWithQuality(u, <<73, 73>>),
                    SequenceWithQuality(Payload("A", "A", "A", 9), PayloadQuality(73, 9))) :
            u \in {<<"A", "A">>, <<"A", "C">>, <<"C", "C">>}}

\* id_tolerance, merge_size and merge_target of a call
OutTolerances == {0, 1}
OutMergeSizes == {0, 1, 2}
OutMergeTargets == {0, 2, 3}

\* cs lists the clusters of the dict in its order, keyed by UID
InitOut ==
    /\ \E k \in 1..3 :
          \E seq \in [1..k -> OutClusters] :
              /\ \A i, j \in 1..k : i # j => seq[i].uid.sequence # seq[j].uid.sequence
              /\ cs = seq
    /\ gh = <<>>
    /\ call = [op |-> "new"]
    /\ ret = "None"
    /\ ncalls = 0
    /\ clustering = None
    /\ id_map = <<>>
    /\ step = NoStep
    /\ st = None
    /\ output = <<>>

\* one call of to_fastq on the clusters; cs keeps the clusters as they
\* were handed in
ToFastq(id_tolerance, merge_size, merge_target_size) ==
    LET r == to_fastq(cs, id_tolerance, merge_size, merge_target_size)
    IN  /\ call.op = "new"
        /\ output' = r.output
        /\ ret' = r.ret
        /\ call' = [op |-> "to_fastq", id_tolerance |-> id_tolerance,
                    merge_size |-> merge_size, merge_target |-> merge_target_size]
        /\ ncalls' = ncalls + 1
        /\ UNCHANGED <<cs, gh, clustering, id_map, step, st>>

NextOut ==
    \E t \in OutTolerances, ms \in OutMergeSizes, mt \in OutMergeTargets :
        ToFastq(t, ms, mt)

SpecOut == InitOut /\ [][NextOut]_vars

\* a store of either class under direct calls
IsPlain(store) == "_index" \in DOMAIN store

NextStores ==
    \/ IsPlain(st) /\ NextStore
    \/ ~IsPlain(st) /\ NextGrouped

SpecStores == (InitStore \/ InitGrouped) /\ [][NextStores]_vars

----------------------------------------------------------------------------
(* Claims about Consensus.update *)

RECURSIVE SumOver(_, _)
SumOver(S, f) ==
    IF S = {} THEN 0
    ELSE LET x == CHOOSE y \in S : TRUE IN f[x] + SumOver(S \ {x}, f)

IsUpdate(c) == c.op = "update"

\* the read gets past the UID length check and the gross-difference gate
PassesGates(self, uid_other, seq_other) ==
    /\ len(self.uid) = len(uid_other)
    /\ ~GrosslyRaises(self.sequence, seq_other, GrossLength)
    /\ ~grosslydifferent(self.sequence, seq_other, GrossLength, GrossTolerance)

\* C1: at every position recorded in diffs the letter counts sum to size
C1_DiffsSumToSize ==
    \A o \in DOMAIN cs : \A p \in DOMAIN cs[o].diffs :
        SumOver(Letters, cs[o].diffs[p]) = cs[o].size

\* C2: after single-read updates every recorded count diffs[i][l] is the
\* number of reads counted in size that have letter l at position i
C2_DiffsCountReads ==
    \A o \in DOMAIN cs : \A p \in DOMAIN cs[o].diffs : \A l \in Letters :
        cs[o].diffs[p][l] > 0 => cs[o].diffs[p][l] = gh[o].tally[p][l]

\* C7 as stated (for the calls that return): update with discard=true and
\* a shorter read returns false, adds size_other to shorter and changes
\* nothing else
C7_ShorterAlwaysCounted ==
    [][\A o \in DOMAIN cs :
        (/\ IsUpdate(call') /\ call'.obj = o /\ call'.discard
         /\ ret' # "IndexError"
         /\ len(call'.seq_other) < len(cs[o].sequence))
        => (/\ ret' = "False"
            /\ cs'[o] = [cs[o] EXCEPT !.shorter = @ + call'.size_other])]_vars

\* C7 amended: the same for a shorter read that has the cluster's UID length
\* and that the gross-difference gate lets through
C7_ShorterCountedPastGates ==
    [][\A o \in DOMAIN cs :
        (/\ IsUpdate(call') /\ call'.obj = o /\ call'.discard
         /\ len(call'.seq_other) < len(cs[o].sequence)
         /\ PassesGates(cs[o], call'.uid_other, call'.seq_other))
        => (/\ ret' = "False"
            /\ cs'[o] = [cs[o] EXCEPT !.shorter = @ + call'.size_other])]_vars

\* a shorter read standing for two reads was counted
C7_Witness ==
    /\ IsUpdate(call) /\ call.discard /\ call.size_other = 2
    /\ len(call.seq_other) < len(cs[call.obj].sequence)
    /\ PassesGates(cs[call.obj], call.uid_other, call.seq_other)
    /\ ret = "False"
    /\ cs[call.obj].shorter >= 2

\* what C8 says of a longer read: false is returned; a cluster of size 1
\* takes the read's payload, stays at size 1, counts it in shorter and
\* leaves longer; a larger cluster counts it in longer and keeps payload,
\* size and shorter
LongerEffect(before, after, result, seq_other, size_other) ==
    /\ result = "False"
    /\ IF before.size = 1
       THEN /\ after.sequence = seq_other
            /\ after.size = 1
            /\ after.shorter = before.shorter + size_other
            /\ after.longer = before.longer
       ELSE /\ after.longer = before.longer + size_other
            /\ after.sequence = before.sequence
            /\ after.size = before.size
            /\ after.shorter = before.shorter

\* C8 as stated (for the calls that return): every update with
\* discard=true and a longer read has the effect above
C8_LongerAlwaysHandled ==
    [][\A o \in DOMAIN cs :
        (/\ IsUpdate(call') /\ call'.obj = o /\ call'.discard
         /\ ret' # "IndexError"
         /\ len(call'.seq_other) > len(cs[o].sequence))
        => LongerEffect(cs[o], cs'[o], ret', call'.seq_other,
                        call'.size_other)]_vars

\* C8 amended: the same for a longer read that has the cluster's UID length
\* and that the gross-difference gate lets through
C8_LongerHandledPastGates ==
    [][\A o \in DOMAIN cs :
        (/\ IsUpdate(call') /\ call'.obj = o /\ call'.discard
         /\ len(call'.seq_other) > len(cs[o].sequence)
         /\ PassesGates(cs[o], call'.uid_other, call'.seq_other))
        => LongerEffect(cs[o], cs'[o], ret', call'.seq_other,
                        call'.size_other)]_vars

\* a cluster of size 2 has counted a longer read standing for two reads
C8_Witness ==
    /\ IsUpdate(call) /\ call.discard /\ call.size_other = 2
    /\ len(call.seq_other) > len(cs[call.obj].sequence)
    /\ PassesGates(cs[call.obj], call.uid_other, call.seq_other)
    /\ ret = "False"
    /\ cs[call.obj].size = 2
    /\ cs[call.obj].longer = 2

\* C9 as stated: uid.quality is the position-wise maximum of the UID
\* qualities of the reads counted in size (the read that supplied the
\* current initial payload and the accepted reads) and never decreases
C9_UidQualityMaxOfCounted ==
    [][\A o \in DOMAIN cs :
        /\ cs'[o].uid.quality = gh'[o].uqmax
        /\ \A i \in DOMAIN cs[o].uid.quality :
              cs'[o].uid.quality[i] >= cs[o].uid.quality[i]]_vars

\* C9 amended: uid.quality is the position-wise maximum of the UID
\* qualities of the read the cluster was constructed from and of every
\* accepted read, and never decreases
C9_UidQualityMaxOfCreatedAndAccepted ==
    [][\A o \in DOMAIN cs :
        /\ cs'[o].uid.quality = gh'[o].uqmax_created
        /\ \A i \in DOMAIN cs[o].uid.quality :
              cs'[o].uid.quality[i] >= cs[o].uid.quality[i]]_vars

\* an accepted read whose UID quality is lower than the cluster's somewhere
\* and higher than what the cluster was constructed with elsewhere
C9_Witness ==
    /\ IsUpdate(call) /\ ret = "True"
    /\ cs[call.obj].uid.quality = <<73, 73>>
    /\ call.uid_other.quality # <<73, 73>>

\* C10: payload.quality is the position-wise maximum of the payload
\* qualities of the reads counted in size
C10_PayloadQualityMax ==
    \A o \in DOMAIN cs : cs[o].sequence.quality = gh[o].qmax

\* an accepted read whose quality is lower than the cluster's somewhere
C10_Witness ==
    /\ IsUpdate(call) /\ ret = "True"
    /\ \E i \in DOMAIN call.seq_other.quality :
          cs[call.obj].sequence.quality[i] > call.seq_other.quality[i]

ClusteringOf(self) ==
    Clustering([k \in {self.uid.sequence} |-> self],
               GroupedSequenceStore(Len(self.uid.sequence), Alphabet, Args.prefix,
                                    Args.threshold, "N"),
               Args.read_length)

\* C26: update with a UID whose length differs from the cluster's returns
\* False and leaves the cluster as it was, and the update branch of the
\* ingest loop, given that cluster and read, adds one to total_skipped
\* and to nothing else.
C26_UidLengthMismatchSkipped ==
    [][(IsUpdate(call') /\ len(cs[call'.obj].uid) # len(call'.uid_other)) =>
          LET self == cs[call'.obj]
              cl == ClusteringOf(self)
          IN  /\ ret' = "False"
              /\ cs'[call'.obj] = self
              /\ \A id_matched, is_long \in BOOLEAN :
                     LET r == record_update(cl, <<>>, call'.uid_other,
                                            call'.seq_other, self.uid.sequence,
                                            id_matched, is_long)
                     IN  /\ r.ret = "None"
                         /\ r.self.clusters = cl.clusters
                         /\ r.self.stats =
                                [cl.stats EXCEPT
                                    !.total_skipped = bump(@, is_long, 1)]]_vars

\* a cluster that has accepted reads or counted rejected ones has refused
\* a read for the length of its UID
C26_Witness ==
    /\ IsUpdate(call)
    /\ len(cs[call.obj].uid) # len(call.uid_other)
    /\ ret = "False"
    /\ cs[call.obj].size + cs[call.obj].shorter >= 2

----------------------------------------------------------------------------
(* Claims about Consensus.merge *)

IsMerge(c) == c.op = "merge"

\* diffs[i] of a cluster, seeded with its size at its consensus letter when
\* the position is not recorded yet
DiffsOrSeed(self, i) ==
    IF i \in DOMAIN self.diffs THEN self.diffs[i]
    ELSE [l \in Letters |->
            IF l = self.sequence.sequence[i] THEN self.size ELSE 0]

\* C3: a successful a.merge(b, t) carries every position of b.diffs into
\* a.diffs, each letter count growing by b's count
C3_MergeCarriesDiffs ==
    [][\A o \in DOMAIN cs : \A p \in DOMAIN cs :
        (IsMerge(call') /\ call'.obj = o /\ call'.other = p /\ ret' = "True")
        => \A i \in DOMAIN cs[p].diffs :
              /\ i \in DOMAIN cs'[o].diffs
              /\ \A l \in Letters :
                    cs'[o].diffs[i][l] =
                        DiffsOrSeed(cs[o], i)[l] + cs[p].diffs[i][l]]_vars

\* C4: a.merge(b, t) and b.merge(a, t) succeed or fail together and on
\* success give the same size, the same letter counts per position (hence
\* the same disagreement header whichever of the two orders is taken) and
\* the same uid quality
C4_MergeSymmetric ==
    \A o \in DOMAIN cs : \A p \in DOMAIN cs : \A t \in MergeTolerances :
        o # p =>
            LET x == merge(cs[o], cs[p], t)
                y == merge(cs[p], cs[o], t)
            IN  /\ x.ret = y.ret
                /\ x.ret = "True" =>
                      /\ x.self.size = y.self.size
                      /\ x.self.diffs = y.self.diffs
                      /\ x.self.uid.quality = y.self.uid.quality

\* C27: when a.merge(b, t) returns False, a and b are as they were: uid,
\* payload, size, diffs and the three reject counters.
C27_FailedMergeChangesNothing ==
    [][(IsMerge(call') /\ ret' = "False") => cs' = cs]_vars

\* a merge of two clusters with UIDs within the tolerance has failed on
\* the payloads: the other payload is longer than that of a cluster of
\* size 1, or grossly different
C27_Witness ==
    /\ IsMerge(call) /\ ret = "False"
    /\ LET self == cs[call.obj]
           other == cs[call.other]
       IN  /\ ~grosslydifferent(self.uid, other.uid, len(self.uid), call.tolerance)
           /\ \/ len(other.sequence) > len(self.sequence) /\ self.size = 1
              \/ grosslydifferent(self.sequence, other.sequence,
                                  GrossLength, GrossTolerance)

\* C11: once a cluster has accepted an update (size >= 2) no update or
\* merge changes the length of its payload; before that the payload's
\* length can only grow.
C11_PayloadLengthFixed ==
    [][\A o \in DOMAIN cs :
          /\ cs[o].size >= 2 => len(cs'[o].sequence) = len(cs[o].sequence)
          /\ cs[o].size < 2 => len(cs'[o].sequence) >= len(cs[o].sequence)]_vars

\* a cluster of size >= 2 has just been offered a longer payload, by update
\* or by merge, and kept its own
C11_Witness ==
    /\ call.op \in {"update", "merge"}
    /\ ret = "False"
    /\ cs[call.obj].size >= 2
    /\ cs[call.obj].longer >= 1
    /\ IF call.op = "update"
       THEN len(call.seq_other) > len(cs[call.obj].sequence)
       ELSE len(cs[call.other].sequence) > len(cs[call.obj].sequence)

\* sequence and quality of the uid and of the payload have one length
LengthsEqual(c) ==
    /\ Len(c.uid.sequence) = Len(c.uid.quality)
    /\ Len(c.sequence.sequence) = Len(c.sequence.quality)

\* C15: sequence and quality always have the same length: constructing
\* with unequal lengths raises ValueError, assigning a sequence or a
\* quality of another length raises ValueError and changes nothing, and
\* every update keeps the lengths of uid and payload equal.
C15_SameLength ==
    [][/\ \A o \in DOMAIN cs : LengthsEqual(cs[o]) /\ LengthsEqual(cs'[o])
       /\ (call'.op = "construct"
              /\ Len(call'.sequence) # Len(call'.quality)) =>
             ret' = "ValueError" /\ cs' = cs
       /\ (call'.op = "assign"
              /\ Len(call'.value) #
                    Len(IF call'.field = "uid" THEN cs[call'.obj].uid.sequence
                        ELSE cs[call'.obj].sequence.sequence)) =>
             ret' = "ValueError" /\ cs' = cs]_vars

\* an assignment of a string of another length has just been refused on
\* a cluster that accepted an update
C15_Witness ==
    /\ call.op = "assign"
    /\ ret = "ValueError"
    /\ cs[call.obj].size >= 2

\* C17: an update in which the read's or the cluster's payload is shorter
\* than the prefix that grosslydifferent compares does not fail and is not
\* counted as grossly different.
C17_ShortNotGrosslyDifferent ==
    [][(/\ IsUpdate(call')
        /\ len(cs[call'.obj].uid) = len(call'.uid_other)
        /\ \/ len(call'.seq_other) < GrossLength
           \/ len(cs[call'.obj].sequence) < GrossLength) =>
         /\ ret' # "IndexError"
         /\ cs'[call'.obj].different = cs[call'.obj].different]_vars

----------------------------------------------------------------------------
(* Claims about Clustering *)

IsRecord(c) == c.op = "record"

\* the centres at UID distance d whose payload has the read's length and
\* is not grossly different from it
Compatible(self, uid, read_seq, d) ==
    {c \in DOMAIN self.clusters :
        /\ SequenceStore_diff(c, uid.sequence) = d
        /\ len(self.clusters[c].sequence) = len(read_seq)
        /\ ~GrosslyRaises(self.clusters[c].sequence, read_seq, GrossLength)
        /\ ~grosslydifferent(self.clusters[c].sequence, read_seq,
                             GrossLength, GrossTolerance)}

\* C5: whenever merge_target returns for a read whose UID prefix holds no
\* wildcard: if some centre at UID distance exactly threshold has a payload
\* of the read's length that is not grossly different, merge_target returns
\* an existing key and no cluster is created; if every centre is at UID
\* distance threshold+1 or more, it returns None and a cluster keyed by
\* the read's UID is created.
C5_MergeTargetFindsCentre ==
    [][(/\ IsRecord(call')
        /\ step'.merge_target = "Returned"
        /\ "N" \notin Range(Prefix(uid_of_line(call'.line, Args.id_length),
                                   Args.prefix))) =>
         LET uid == RecordUid(call'.line, call'.qline)
             read_seq == RecordRead(call'.line, call'.qline)
             before == clustering.clusters
             after == clustering'.clusters
         IN  /\ Compatible(clustering, uid, read_seq, Args.threshold) # {} =>
                   /\ step'.target \in DOMAIN before
                   /\ DOMAIN after = DOMAIN before
             /\ (\A c \in DOMAIN before :
                     SequenceStore_diff(c, uid.sequence) >= Args.threshold + 1) =>
                   /\ step'.target = NoUid
                   /\ DOMAIN after = DOMAIN before \cup {uid.sequence}]_vars

\* C6: every record whose two lines have the same length does exactly one
\* of two things: update is called once, on an existing cluster, and the
\* set of clusters is unchanged; or one size-1 cluster keyed by the read's
\* UID is added and no existing cluster is modified.
C6_UpdateOrNewCluster ==
    [][(IsRecord(call') /\ Len(call'.line) = Len(call'.qline)) =>
         LET nameid == uid_of_line(call'.line, Args.id_length)
             before == clustering.clusters
             after == clustering'.clusters
             updated == /\ Len(step'.updates) = 1
                        /\ step'.updates[1] \in DOMAIN before
                        /\ DOMAIN after = DOMAIN before
             created == /\ nameid \notin DOMAIN before
                        /\ DOMAIN after = DOMAIN before \cup {nameid}
                        /\ after[nameid].size = 1
                        /\ \A c \in DOMAIN before : after[c] = before[c]
                        /\ step'.updates = <<>>
         IN  (updated \/ created) /\ ~(updated /\ created)]_vars

\* the strings a GroupedSequenceStore holds: tag and tail of every shard
\* entry, and the strings with a wildcard in the tag
strings(store) ==
    UNION {{tag \o tail : tail \in DOMAIN store._store[tag]._index} :
              tag \in DOMAIN store._store}
        \cup wild_tags(store)

\* C12: after any sequence of records, Clustering.add and
\* Clustering.merge_target calls from an empty clustering, the cluster keys
\* are exactly the strings the store holds.
C12_KeysAreStoreStrings ==
    DOMAIN clustering.clusters = strings(clustering._store)

\* several centres, one of them with a wildcard in its prefix, and a read
\* that was merged into a neighbour
C12_Witness ==
    /\ Cardinality(DOMAIN clustering.clusters) >= 2
    /\ fail_count(clustering) >= 1
    /\ id_map # <<>>

\* the values given for max_hits
HitLimits == {1, 2}

\* UIDs with the wildcard in the prefix
WildQueries ==
    {<<"N", "A", "A", "A">>, <<"N", "C", "A", "A">>, <<"N", "A", "A", "C">>,
     <<"N", "N", "A", "A">>}

\* the prefix of a UID, as the store cuts it, holds the wildcard
WildPrefix(nameid) == "N" \in Range(Prefix(nameid, Args.prefix))

\* C25: for a query with the wildcard in its prefix, search returns the
\* query alone if it is in the wildcard store and nothing otherwise; a
\* record with such a UID is never assigned to a centre with another UID
\* (no id_map entry, no merge target, update only on its own key); and
\* fail_count is the number of cluster keys with the wildcard in the
\* prefix.
C25_WildcardExactOnly ==
    /\ \A q \in WildQueries :
           LET held == q \in wild_tags(clustering._store)
           IN  /\ GroupedSequenceStore_search_raw(clustering._store, q) =
                      IF held THEN {q} ELSE {}
               /\ \A max_hits \in HitLimits \cup {Unlimited} :
                      GroupedSequenceStore_search(clustering._store, q, max_hits) =
                          IF held THEN {<< <<q, 0>> >>} ELSE {<<>>}
    /\ \A k \in DOMAIN id_map : ~WildPrefix(k)
    /\ (IsRecord(call) /\ WildPrefix(uid_of_line(call.line, Args.id_length))) =>
           /\ step.target = NoUid
           /\ \A i \in DOMAIN step.updates :
                  step.updates[i] = uid_of_line(call.line, Args.id_length)
    /\ fail_count(clustering) =
           Cardinality({k \in DOMAIN clustering.clusters : WildPrefix(k)})

\* a record whose UID has the wildcard in its prefix has opened a cluster
\* of its own although a centre within the threshold exists
C25_Witness ==
    /\ IsRecord(call)
    /\ WildPrefix(uid_of_line(call.line, Args.id_length))
    /\ step.merge_target = "Returned"
    /\ step.updates = <<>>
    /\ \E c \in DOMAIN clustering.clusters :
           /\ c # uid_of_line(call.line, Args.id_length)
           /\ SequenceStore_diff(c, uid_of_line(call.line, Args.id_length))
                  <= Args.threshold
    /\ fail_count(clustering) = 1

\* the reads a cluster has turned away
rejected(self) == self.different + self.shorter + self.longer

\* C29: while from_fastq has not raised, after n records the sizes and
\* reject counters of all clusters sum to n, and total_skipped (short and
\* long reads together) is the sum of the reject counters.
C29_ReadsConserved ==
    ret \notin Raised =>
        LET cl == clustering.clusters
        IN  /\ SumOver(DOMAIN cl, [k \in DOMAIN cl |-> cl[k].size + rejected(cl[k])])
                   = ncalls
            /\ clustering.stats.total_skipped[1] + clustering.stats.total_skipped[2]
                   = SumOver(DOMAIN cl, [k \in DOMAIN cl |-> rejected(cl[k])])

\* three records read: one merged into a neighbouring centre and one
\* turned away by a centre
C29_Witness ==
    /\ ret \notin Raised
    /\ ncalls >= 3
    /\ id_map # <<>>
    /\ \E k \in DOMAIN clustering.clusters :
           /\ clustering.clusters[k].size >= 2
           /\ rejected(clustering.clusters[k]) >= 1

\* id_map and the clusters agree
IdMapConsistent ==
    /\ \A k \in DOMAIN id_map :
           /\ k \notin DOMAIN clustering.clusters
           /\ id_map[k] \in DOMAIN clustering.clusters
           /\ id_map[k] # k
           /\ Cardinality({i \in DOMAIN k : k[i] # id_map[k][i]}) <= Args.threshold
    /\ \A k \in DOMAIN clustering.clusters :
           clustering.clusters[k].uid.sequence = k

\* entries of id_map and clusters stay
IdMapGrows ==
    /\ \A k \in DOMAIN id_map : k \in DOMAIN id_map' /\ id_map'[k] = id_map[k]
    /\ DOMAIN clustering.clusters \subseteq DOMAIN clustering'.clusters

\* C30: after any number of records no key of id_map is a cluster key,
\* every value of id_map is a cluster key other than its key and within
\* threshold of it, every cluster's key is its uid.sequence, and no entry
\* of id_map is ever changed or removed and no cluster ever removed.
C30_IdMapConsistent ==
    []IdMapConsistent /\ [][IdMapGrows]_vars

\* a record has been assigned through an entry of id_map written by an
\* earlier record, and its read was accepted by the centre
C30_Witness ==
    /\ IsRecord(call)
    /\ uid_of_line(call.line, Args.id_length) \in DOMAIN id_map
    /\ step.merge_target = "NotCalled"
    /\ step.updates = <<id_map[uid_of_line(call.line, Args.id_length)]>>
    /\ clustering.clusters[id_map[uid_of_line(call.line, Args.id_length)]].size >= 3

\* C16: a record whose sequence line and quality line differ in length is
\* skipped: no cluster is created or updated, and the run is not aborted.
C16_MalformedSkipped ==
    [][(IsRecord(call') /\ Len(call'.line) # Len(call'.qline)) =>
         /\ ret' \notin Raised
         /\ clustering'.clusters = clustering.clusters]_vars

\* C19: after a single read, the sequence and quality lines of the
\* cluster's FASTQ record, cut up again with the same id_length and
\* adapter, give back the cluster's UID and payload with their qualities.
C19_RoundTrip ==
    (ncalls = 1 /\ IsRecord(call) /\ ret = "None") =>
        \A k \in DOMAIN clustering.clusters :
            LET c == clustering.clusters[k]
                out == Consensus_str(c)
            IN  /\ RecordUid(out.sequence, out.quality) = c.uid
                /\ RecordRead(out.sequence, out.quality) = c.sequence

\* C18: for a fixed order of reads the outcome is determined: whatever
\* has been read so far, merge_target can return only one value for the
\* next record, also when several centres are at the least distance.
C18_Deterministic ==
    ret \notin Raised =>
        \A rec \in Records : Cardinality(Picks(rec.line, rec.qline)) = 1

----------------------------------------------------------------------------
(* Claims about the stores *)

\* Hamming distance of two strings of one length
Hamming(a, b) == Cardinality({i \in DOMAIN a : a[i] # b[i]})

\* the stored strings within d of a query
Near(stored, query, d) == {x \in stored : Hamming(query, x) <= d}

\* C13: for a query that is not stored, SequenceStore.search with
\* max_hits=None returns each stored string within Hamming distance d
\* once, paired with its Hamming distance, and nothing else; the raw
\* candidates contain every such string.
C13_SearchExact ==
    \A q \in PlainStrings, d \in 0..3, w \in Wildcards :
        q \notin DOMAIN st._index =>
            /\ \A l \in SequenceStore_search(st, q, d, Unlimited, w) :
                   /\ Len(l) = Cardinality(Near(DOMAIN st._index, q, d))
                   /\ Range(l) = {<<x, Hamming(q, x)>> :
                                    x \in Near(DOMAIN st._index, q, d)}
            /\ SequenceStore_search(st, q, d, Unlimited, w) # {}
            /\ Near(DOMAIN st._index, q, d)
                   \subseteq SequenceStore_search_raw(st, q, d, w)

\* a query with a stored string within d, a stored string beyond d, and a
\* raw candidate that is beyond d
C13_Witness ==
    \E q \in PlainStrings, d \in 0..3 :
        /\ q \notin DOMAIN st._index
        /\ Near(DOMAIN st._index, q, d) # {}
        /\ Near(DOMAIN st._index, q, d) # DOMAIN st._index
        /\ ~(SequenceStore_search_raw(st, q, d, None)
                \subseteq Near(DOMAIN st._index, q, d))

\* the stored strings of a grouped store whose tag holds no wildcard
tagged(store) ==
    UNION {{tag \o tail : tail \in DOMAIN store._store[tag]._index} :
              tag \in DOMAIN store._store}

\* C14: for a query that is not stored and whose prefix holds no wildcard,
\* GroupedSequenceStore.search with max_hits=None returns each stored
\* string with wildcard-free prefix within max_diff of the query, paired
\* with its Hamming distance, and nothing else; the raw candidates contain
\* every such string.
C14_GroupedSearchComplete ==
    \A q \in PlainStrings :
        (q \notin strings(st) /\ q[1] # "N") =>
            /\ \A l \in GroupedSequenceStore_search(st, q, Unlimited) :
                   Range(l) = {<<x, Hamming(q, x)>> :
                                 x \in Near(tagged(st), q, st._max_diff)}
            /\ Near(tagged(st), q, st._max_diff)
                   \subseteq GroupedSequenceStore_search_raw(st, q)

\* membership in a store of either class
Stored(store, item) ==
    IF IsPlain(store) THEN item \in DOMAIN store._index
    ELSE item \in strings(store)

\* C20: in both stores, remove of a string that is not stored raises
\* KeyError and leaves the store as it was; discard of a string that is
\* not stored returns and leaves the store as it was.
C20_RemoveFailsDiscardTolerates ==
    [][/\ (call'.op = "remove" /\ ~Stored(st, call'.item)) =>
             ret' = "KeyError" /\ st' = st
       /\ (call'.op = "discard" /\ ~Stored(st, call'.item)) =>
             ret' = "None" /\ st' = st]_vars

\* a grouped store that holds strings has just refused to remove one it
\* does not hold
C20_Witness ==
    /\ ~IsPlain(st)
    /\ call.op = "remove"
    /\ ret = "KeyError"
    /\ GroupedSequenceStore_len(st) >= 2

\* __contains__ and __len__ of a store of either class
Contains(store, item) ==
    IF IsPlain(store) THEN SequenceStore_contains(store, item)
    ELSE GroupedSequenceStore_contains(store, item)

StoreLen(store) ==
    IF IsPlain(store) THEN SequenceStore_len(store)
    ELSE GroupedSequenceStore_len(store)

\* C21: after any sequence of add, remove and discard calls, membership
\* and len of the store equal those of the reference set gh to which the
\* same calls were applied.
C21_BehavesLikeSet ==
    /\ \A x \in StoredStrings \cup GroupedStrings \cup PlainStrings :
           Contains(st, x) <=> x \in gh
    /\ StoreLen(st) = Cardinality(gh)

\* a grouped store with a string in a shard and one in the wildcard
\* store, to which a stored string has just been added again
C21_Witness ==
    /\ ~IsPlain(st)
    /\ call.op = "add"
    /\ call.stored
    /\ tagged(st) # {}
    /\ wild_tags(st) # {}

\* r is what find has to return for query q and bound d when pool are the
\* strings it can match: (q, 0) if q is stored, else a string of pool at
\* the least distance, if that is within d, else nothing
BestMatch(r, store, pool, q, d) ==
    IF Contains(store, q) THEN r = <<q, 0>>
    ELSE IF Near(pool, q, d) = {} THEN r = NoMatch
    ELSE /\ r # NoMatch
         /\ r[1] \in pool
         /\ r[2] = Hamming(q, r[1])
         /\ \A x \in pool : r[2] <= Hamming(q, x)

\* the queries with wildcard-free prefix
FindQueries == {q \in PlainStrings \cup GroupedStrings : q[1] # "N"}

\* find on a SequenceStore, for every query, bound and wildcard
PlainFindBest ==
    IsPlain(st) =>
        \A q \in PlainStrings, d \in 0..3, w \in Wildcards :
            /\ SequenceStore_find(st, q, d, w) # {}
            /\ \A r \in SequenceStore_find(st, q, d, w) :
                   BestMatch(r, st, DOMAIN st._index, q, d)

\* C22 as stated: find returns (query, 0) for a stored query, else a
\* stored string at the least Hamming distance with that distance if it
\* is within max_diff, else None; the stored strings of a grouped store
\* include those of its wildcard store.
C22_FindBestOfAllStored ==
    /\ PlainFindBest
    /\ ~IsPlain(st) =>
           \A q \in FindQueries :
               \A r \in GroupedSequenceStore_find(st, q) :
                   BestMatch(r, st, strings(st), q, st._max_diff)

\* C22 amended: as above, with the best match of a grouped store taken
\* among its stored strings with wildcard-free prefix.
C22_FindBestOfTagged ==
    /\ PlainFindBest
    /\ ~IsPlain(st) =>
           \A q \in FindQueries :
               /\ GroupedSequenceStore_find(st, q) # {}
               /\ \A r \in GroupedSequenceStore_find(st, q) :
                      BestMatch(r, st, tagged(st), q, st._max_diff)

\* a grouped store and a query that is not stored, with two stored strings
\* within max_diff at different distances, in different shards
C22_Witness ==
    /\ ~IsPlain(st)
    /\ \E q \in FindQueries, x, y \in tagged(st) :
           /\ ~Contains(st, q)
           /\ x[1] # y[1]
           /\ Hamming(q, x) < Hamming(q, y)
           /\ Hamming(q, y) <= st._max_diff

\* C24: the list GroupedSequenceStore.search returns in non-raw mode is
\* in order of non-decreasing distance and, with max_hits given, holds
\* the max_hits stored matches closest to the query (all matches if there
\* are fewer), each with its Hamming distance.
C24_SortedClosestHits ==
    \A q \in FindQueries, max_hits \in HitLimits :
        \A l \in GroupedSequenceStore_search(st, q, max_hits) :
            LET matches == Near(tagged(st), q, st._max_diff)
                found == {l[i][1] : i \in DOMAIN l}
            IN  /\ \A i, j \in DOMAIN l : i < j => l[i][2] <= l[j][2]
                /\ found \subseteq matches
                /\ Len(l) = IF Cardinality(matches) < max_hits
                            THEN Cardinality(matches) ELSE max_hits
                /\ \A i \in DOMAIN l : l[i][2] = Hamming(q, l[i][1])
                /\ \A i \in DOMAIN l, x \in matches \ found :
                       l[i][2] <= Hamming(q, x)

----------------------------------------------------------------------------
(* Claims about to_fastq *)

\* the sum of the sizes of a list of clusters
RECURSIVE SizeSum(_)
SizeSum(l) == IF l = <<>> THEN 0 ELSE l[1].size + SizeSum(Tail(l))

\* C28: to_fastq writes each input cluster once or merges it into one
\* cluster that is written: it returns, the records are clusters of the
\* input with different UIDs, the sizes written sum to the sizes handed
\* in, and with merge_size or merge_target 0 the records are the input
\* clusters unchanged.
C28_EveryClusterAccounted ==
    call.op = "to_fastq" =>
        /\ ret = "None"
        /\ \A i \in DOMAIN output :
               \E j \in DOMAIN cs : output[i].uid.sequence = cs[j].uid.sequence
        /\ \A i, j \in DOMAIN output :
               i # j => output[i].uid.sequence # output[j].uid.sequence
        /\ SizeSum(output) = SizeSum(cs)
        /\ (call.merge_size = 0 \/ call.merge_target = 0) =>
               Range(output) = Range(cs)

====
